---- MODULE Spec2Model ----
(***************************************************************************)
(* palette-cut: frame sampling (processVideo, native path and FFmpeg.wasm  *)
(* fallback) and colour analysis (analyzeColors).                          *)
(*                                                                         *)
(* Two specifications share the module:                                    *)
(*   SpecAnalyze - analyzeColors run statement by statement on a bounded   *)
(*                 set of colour sequences;                                *)
(*   Spec        - processVideo jobs driven by the decoder's events and    *)
(*                 the engine's command results.                           *)
(*                                                                         *)
(* Numbers.  JavaScript numbers are doubles.  Cluster centres are kept as  *)
(* exact fractions (numerators over one shared denominator), so a centre   *)
(* is the value the source's expression has in real arithmetic; doubles    *)
(* differ from it by rounding error of the order 1e-13.  Times are integer *)
(* ticks of 1/4800 s, so that duration/FRAME_COUNT and the 0.1 s margin    *)
(* are whole numbers for every duration that is a multiple of 0.05 s.      *)
(***************************************************************************)
EXTENDS Integers, Sequences, FiniteSets, TLC

(***************************************************************************)
(* Configuration (program constants)                                       *)
(***************************************************************************)
FRAME_COUNT == 240

THRESHOLD == 30

(***************************************************************************)
(* Bounds of the model                                                     *)
(***************************************************************************)
MaxLen == 3

(***************************************************************************)
(* Colours                                                                 *)
(***************************************************************************)
RGB(r, g, b) == [r |-> r, g |-> g, b |-> b]

BLACK == RGB(0, 0, 0)

RED == RGB(255, 0, 0)

BLUE == RGB(0, 0, 255)

\* Colours the bounded sequences are drawn from: pairs nearer than, exactly
\* at, and far beyond the clustering threshold, and a pair whose mean is x.5.
Palette == { BLACK, RGB(1, 0, 0), RGB(20, 0, 0), RGB(30, 0, 0), RED, BLUE }

RECURSIVE SeqsUpTo(_, _)
SeqsUpTo(S, n) ==
    IF n = 0 THEN { <<>> }
    ELSE LET shorter == SeqsUpTo(S, n - 1)
         IN  shorter \cup { Append(s, x) : s \in { t \in shorter : Len(t) = n - 1 }, x \in S }

\* 200 entries RED and 40 entries BLUE, one BLUE after every five RED.
RedBlue240 == [ i \in 1..FRAME_COUNT |-> IF i % 6 = 0 THEN BLUE ELSE RED ]

\* 240 identical entries.
Same240 == [ i \in 1..FRAME_COUNT |-> RGB(10, 20, 30) ]

AnalyzeInputs == (SeqsUpTo(Palette, MaxLen) \ { <<>> }) \cup { RedBlue240, Same240 }

(***************************************************************************)
(* Arithmetic helpers                                                      *)
(***************************************************************************)
RECURSIVE GCD(_, _)
GCD(a, b) == IF b = 0 THEN a ELSE GCD(b, a % b)

Min(a, b) == IF a <= b THEN a ELSE b

Max(a, b) == IF a >= b THEN a ELSE b

\* Math.round(n / d) for n >= 0, d > 0: the nearest integer, halves upwards.
MathRound(n, d) == (2 * n + d) \div (2 * d)

(***************************************************************************)
(* analyzeColors                                                           *)
(***************************************************************************)
\* A cluster centre: channel numerators over the shared denominator den.
Center(r, g, b, den) == [r |-> r, g |-> g, b |-> b, den |-> den]

Reduce(c) ==
    LET d == GCD(GCD(GCD(c.den, c.r), c.g), c.b)
    IN  Center(c.r \div d, c.g \div d, c.b \div d, c.den \div d)

\* colorDistance(color, center) < THRESHOLD, both sides squared and scaled by
\* center.den^2 (the square root is monotone).
colorDistanceSq(color, center) ==
      (color.r * center.den - center.r) * (color.r * center.den - center.r)
    + (color.g * center.den - center.g) * (color.g * center.den - center.g)
    + (color.b * center.den - center.b) * (color.b * center.den - center.b)

WithinThreshold(color, center) ==
    colorDistanceSq(color, center) < THRESHOLD * THRESHOLD * center.den * center.den

\* cluster.count++; center.x = (center.x * (count - 1) + color.x) / count
JoinClusterKeepCenter(cluster, color) ==
    [ count |-> cluster.count + 1, center |-> cluster.center ]

JoinCluster(cluster, color) ==
    LET count == cluster.count + 1
        c     == cluster.center
    IN  [ count  |-> count,
          center |-> Reduce(Center(c.r * (count - 1) + color.r * c.den,
                                   c.g * (count - 1) + color.g * c.den,
                                   c.b * (count - 1) + color.b * c.den,
                                   c.den * count)) ]

NewCluster(color) == [ count |-> 1, center |-> Center(color.r, color.g, color.b, 1) ]

\* Index of the first cluster, in list order, the colour fits; 0 when none.
RECURSIVE FirstFit(_, _, _)
FirstFit(cs, color, k) ==
    IF k > Len(cs) THEN 0
    ELSE IF WithinThreshold(color, cs[k].center) THEN k
    ELSE FirstFit(cs, color, k + 1)

\* The body of the second forEach for one colour.
ClusterStepLastFit(cs, color) ==
    LET fit == { i \in 1..Len(cs) : WithinThreshold(color, cs[i].center) }
    IN  IF fit = {} THEN Append(cs, NewCluster(color))
        ELSE LET k == CHOOSE i \in fit : \A j \in fit : j <= i
             IN  [ cs EXCEPT ![k] = JoinCluster(cs[k], color) ]

ClusterStep(cs, color) ==
    LET k == FirstFit(cs, color, 1)
    IN  IF k = 0 THEN Append(cs, NewCluster(color))
        ELSE [ cs EXCEPT ![k] = JoinCluster(cs[k], color) ]

\* clusters.sort((a, b) => b.count - a.count): stable, descending by count.
RECURSIVE InsertByCount(_, _)
InsertByCount(sorted, x) ==
    IF sorted = <<>> THEN << x >>
    ELSE IF Head(sorted).count >= x.count
         THEN << Head(sorted) >> \o InsertByCount(Tail(sorted), x)
         ELSE << x >> \o sorted

RECURSIVE SortByCountFrom(_, _, _)
SortByCountFrom(cs, k, acc) ==
    IF k > Len(cs) THEN acc
    ELSE SortByCountFrom(cs, k + 1, InsertByCount(acc, cs[k]))

SortUnsorted(cs) == cs

SortByCount(cs) == SortByCountFrom(cs, 1, <<>>)

RoundCenter(c) == RGB(MathRound(c.r, c.den), MathRound(c.g, c.den), MathRound(c.b, c.den))

\* { r: Math.round(totalR / colors.length), ... }
AverageOfTruncated(total, n) == RGB(total.r \div n, total.g \div n, total.b \div n)

AverageOf(total, n) == RGB(MathRound(total.r, n), MathRound(total.g, n), MathRound(total.b, n))

NoResult == [ average |-> BLACK, dominant |-> BLACK, least |-> BLACK ]


(***************************************************************************)
(* processVideo: inputs and environment                                    *)
(***************************************************************************)
MaxJobs == 2

\* How many seeks a decoder that has raised an error may still answer.
MaxLate == 2

\* 1024 * 1024 * 1024
LARGE_FILE == 1024 * 1024 * 1024

\* duration = 7200, the guess taken when the probe logs no duration (seconds)
GUESSED_DURATION == 7200

\* FRAME_COUNT + 10: the last sequence number the read loop tries
READ_CAP == FRAME_COUNT + 10

\* One duration unit is 0.05 s and has UnitTicks ticks, so duration / FRAME_COUNT
\* is a whole number of ticks.
UnitTicks == FRAME_COUNT

\* The 0.1 s of duration - 0.1, in ticks.
Margin == 2 * UnitTicks

Finite(units) == [kind |-> "finite", units |-> units]

NaN == [kind |-> "NaN", units |-> 0]

Infinity == [kind |-> "Infinity", units |-> 0]

\* No error event is ever fired by the decoder of such a video.
NoError == 0 - 1

\* A video file together with what the decoder and the engine do with it:
\*   blob     - the argument is a Blob (createObjectURL accepts it)
\*   size     - videoFile.size
\*   duration - video.duration once the metadata is loaded
\*   bad      - which pixel reads (getImageData) throw: "none", "some", "all"
\*   errAt    - the error event fires once errAt seeks have been issued
\*              (0: while the metadata is loading), NoError: never
\*   late     - seeks the decoder still answers after the error event
\*   probed   - duration the engine's probe logs, seconds (0: no Duration line)
\*   frames   - number of images one extraction pass writes
\*   corrupt  - sequence number of a written image that cannot be decoded
\*              (0: none)
Video(blob, size, duration, bad, errAt, late, probed, frames, corrupt) ==
    [blob |-> blob, size |-> size, duration |-> duration, bad |-> bad,
     errAt |-> errAt, late |-> late, probed |-> probed, frames |-> frames,
     corrupt |-> corrupt]

Videos ==
    { Video(FALSE, 1, Finite(2400), "none", NoError, 0, 120, FRAME_COUNT, 0),
      Video(TRUE, 1, Finite(2400), "none", NoError, 0, 120, FRAME_COUNT, 0),
      Video(TRUE, 1, Finite(2400), "some", NoError, 0, 120, FRAME_COUNT, 0),
      Video(TRUE, 1, Finite(7), "all", NoError, 0, 0, 2, 0),
      Video(TRUE, 1, Finite(1), "none", NoError, 0, 0, 2, 0),
      Video(TRUE, LARGE_FILE + 1, NaN, "none", NoError, 0, 120, FRAME_COUNT, 0),
      Video(TRUE, LARGE_FILE, Infinity, "none", NoError, 0, 0, 2, 0),
      Video(TRUE, LARGE_FILE - 1, Finite(0), "none", NoError, 0, 0, 0, 0),
      Video(TRUE, LARGE_FILE + 1, Finite(2400), "none", 0, 0, 120, READ_CAP + 2, 0),
      Video(TRUE, 1, Finite(2400), "some", 5, 0, 120, FRAME_COUNT, 2),
      Video(TRUE, 1, Finite(2400), "none", 5, MaxLate, 0, 2, 0),
      Video(TRUE, 1, Finite(7), "none", FRAME_COUNT, 0, 0, 0, 0) }

NoVideo == Video(FALSE, 0, NaN, "none", NoError, 0, 0, 0, 0)

\* Pixel reads that throw on a video whose bad is "some" (0-based sample index).
SomeBad == { 0, 3, FRAME_COUNT - 1 }

BadFrame(v, index) ==
    \/ v.bad = "all"
    \/ v.bad = "some" /\ index \in SomeBad

(***************************************************************************)
(* Error messages, as sequences of words                                   *)
(***************************************************************************)
MsgFormat == << "Format", "not", "supported" >>

MsgDuration == << "Could", "not", "determine", "video", "duration" >>

MsgCancelled == << "Processing", "cancelled", "by", "user", "due", "to", "file", "size." >>

\* TypeError of URL.createObjectURL for an argument that is not a Blob.
MsgTypeError == << "Failed", "to", "execute", "createObjectURL", "on", "URL:",
                   "Overload", "resolution", "failed." >>

MsgEngine == << "ffmpeg", "is", "not", "loaded" >>

\* String.prototype.includes, on words.
Includes(msg, needle) ==
    \E i \in 1..Len(msg) :
        /\ i + Len(needle) - 1 <= Len(msg)
        /\ SubSeq(msg, i, i + Len(needle) - 1) = needle

\* err.message && (includes("supported") || includes("video duration") || includes("format"))
ShouldFallbackAlways(msg) == TRUE

ShouldFallback(msg) ==
    /\ msg # <<>>
    /\ \/ Includes(msg, << "supported" >>)
       \/ Includes(msg, << "video", "duration" >>)
       \/ Includes(msg, << "format" >>)

Resolved(colors) == [kind |-> "resolved", colors |-> colors, msg |-> <<>>]

Rejected(msg) == [kind |-> "rejected", colors |-> <<>>, msg |-> msg]

\* resolve(x) / reject(e) of a promise: only the first call settles it.
SettleAgain(promise, outcome) == Append(promise, outcome)

Settle(promise, outcome) == IF promise = <<>> THEN << outcome >> ELSE promise

(***************************************************************************)
(* Frames                                                                  *)
(***************************************************************************)
RECURSIVE ChannelSum(_, _, _)
ChannelSum(data, i, offset) ==
    IF i > Len(data) THEN 0
    ELSE data[i + offset] + ChannelSum(data, i + 4, offset)

\* getAverageColor(imageData): data is RGBA, four entries per pixel.
getAverageColor(data) ==
    LET pixelCount == Len(data) \div 4
    IN  RGB(MathRound(ChannelSum(data, 1, 0), pixelCount),
            MathRound(ChannelSum(data, 1, 1), pixelCount),
            MathRound(ChannelSum(data, 1, 2), pixelCount))

\* The raster drawn from the video at position t (ticks): two pixels stand for
\* the 32 x 32 raster.
VideoFrame(t) ==
    LET tenth == (t \div Margin) % 256
    IN  << tenth, 10, 20, 255, tenth, 11, 60, 255 >>

\* The raster decoded from image number n written by job j.
ImageFrame(j, n) == << n % 256, 100 + j, 0, 255, n % 256, 100 + j, 0, 255 >>

\* The seek algorithm clamps the new position into [0, duration].
ClampPosition(v, t) == Max(0, Min(t, v.duration.units * UnitTicks))

\* !duration || duration === Infinity
DurationUnknownZeroPasses(d) == d.kind # "finite"

DurationUnknown(d) == d.kind # "finite" \/ d.units = 0

\* Math.min(interval * currentFrame, duration - 0.1), in ticks.  (A duration
\* that is not finite never gets here; 0 stands for the position it would keep.)
SeekTimeNext(d, currentFrame) ==
    IF d.kind # "finite" THEN 0
    ELSE Min(((d.units * UnitTicks) \div FRAME_COUNT) * (currentFrame + 1),
             d.units * UnitTicks - Margin)

SeekTime(d, currentFrame) ==
    IF d.kind # "finite" THEN 0
    ELSE Min(((d.units * UnitTicks) \div FRAME_COUNT) * currentFrame,
             d.units * UnitTicks - Margin)

\* try { colors.push(getAverageColor(getImageData())) } catch { colors.push(black) }
CaptureDropFailed(v, colors, index, position) ==
    IF BadFrame(v, index) THEN colors
    ELSE Append(colors, getAverageColor(VideoFrame(position)))

Capture(v, colors, index, position) ==
    IF BadFrame(v, index) THEN Append(colors, BLACK)
    ELSE Append(colors, getAverageColor(VideoFrame(position)))

\* Math.round((currentFrame / FRAME_COUNT) * 100)
NativePercent(currentFrame) == MathRound(currentFrame * 100, FRAME_COUNT)

\* Math.round(10 + (i / FRAME_COUNT) * 80)
ReadPercent(i) == MathRound(10 * FRAME_COUNT + i * 80, FRAME_COUNT)

VARIABLES
    aColors,      \* analyzeColors: the argument
    aPc,          \* analyzeColors: "sum", "cluster", "done"
    aIdx,         \* entries consumed by the running forEach
    aTotal,       \* totalR, totalG, totalB
    aAverage,     \* average
    aClusters,    \* clusters
    aResult       \* the returned object

VARIABLES
    appFile,      \* App: file (NoVideo stands for null)
    appColors,    \* App: colors
    isProcessing, \* App: isProcessing
    appPc         \* handleFileSelected: "idle", or "await" at await processVideo

VARIABLES
    jobs,         \* processVideo invocations started so far
    file,         \* videoFile of the current invocation
    pc,           \* where processVideo / processVideoFFmpeg is suspended
    outcome,      \* settlements of the promise processVideo returned
    lastProgress, \* last value passed to onProgress (NoProgress: none yet)
    progressCount, \* number of onProgress calls of the current invocation
    progress      \* App: progress, the value the onProgress sink stores

VARIABLES
    nPromise,     \* settlements of the promise of processVideoNative
    nStage,       \* "none", "loading", "seeking", "timer", "stopped"
    currentFrame, \* currentFrame of the closure
    nColors,      \* colors of the closure
    seekTime,     \* last value assigned to video.currentTime, in ticks
    position,     \* video.currentTime, in ticks
    seeksIssued,  \* assignments to video.currentTime so far
    outstanding,  \* seeks issued and not yet answered by seeked
    errored,      \* the decoder has fired its error event
    lateLeft,     \* seeks an errored decoder still answers
    urls          \* jobs whose object URL is not revoked

VARIABLES
    ffmpeg,       \* the singleton: "null", "created", "loaded"
    engines,      \* FFmpeg objects constructed so far
    vfsInputs,    \* input files in the engine's filesystem (by owning job)
    vfsFrames,    \* extracted images in it: << sequence number, owning job >>
    fStarted,     \* processVideoFFmpeg has been called by the current invocation
    fConfirm,     \* answer of confirm(): "none", "yes", "no"
    fWrites,      \* writeFile calls of the current invocation
    fExecs,       \* exec calls of the current invocation
    fDuration,    \* duration of processVideoFFmpeg, seconds
    fI,           \* i of the read loop
    fColors       \* colors of processVideoFFmpeg

avars == << aColors, aPc, aIdx, aTotal, aAverage, aClusters, aResult >>

uvars == << appFile, appColors, isProcessing, appPc >>

jvars == << jobs, file, pc, outcome >>

pvars == << lastProgress, progressCount, progress >>

nvars == << nPromise, nStage, currentFrame, nColors, seekTime, position, seeksIssued,
            outstanding, errored, lateLeft, urls >>

evars == << ffmpeg, engines, vfsInputs, vfsFrames >>

fvars == << fStarted, fConfirm, fWrites, fExecs, fDuration, fI, fColors >>

vars == << avars, uvars, jvars, pvars, nvars, evars, fvars >>

NoProgress == 0 - 1

\* onProgress(p): (p) => { setProgress(p) }
Report(p) ==
    /\ lastProgress' = p
    /\ progress' = p
    /\ progressCount' = progressCount + 1

(***************************************************************************)
(* Initial states                                                          *)
(***************************************************************************)
AnalyzeIdle ==
    /\ aPc = "sum" /\ aIdx = 0 /\ aTotal = BLACK /\ aAverage = BLACK
    /\ aClusters = <<>> /\ aResult = NoResult

JobsIdle ==
    /\ appFile = NoVideo /\ appColors = <<>> /\ isProcessing = FALSE
    /\ appPc = "idle" /\ progress = 0
    /\ jobs = 0 /\ file = NoVideo /\ pc = "idle" /\ outcome = <<>>
    /\ lastProgress = NoProgress /\ progressCount = 0
    /\ nPromise = <<>> /\ nStage = "none" /\ currentFrame = 0 /\ nColors = <<>>
    /\ seekTime = 0 /\ position = 0 /\ seeksIssued = 0 /\ outstanding = 0
    /\ errored = FALSE /\ lateLeft = 0 /\ urls = {}
    /\ ffmpeg = "null" /\ engines = 0 /\ vfsInputs = {} /\ vfsFrames = {}
    /\ fStarted = FALSE /\ fConfirm = "none" /\ fWrites = 0 /\ fExecs = 0
    /\ fDuration = 0 /\ fI = 0 /\ fColors = <<>>

InitAnalyze ==
    /\ aColors \in AnalyzeInputs
    /\ AnalyzeIdle
    /\ JobsIdle

Init ==
    /\ aColors = <<>>
    /\ AnalyzeIdle
    /\ JobsIdle

(***************************************************************************)
(* analyzeColors, statement by statement                                   *)
(***************************************************************************)
\* colors.forEach(c => { totalR += c.r; ... })
SumStep ==
    /\ aPc = "sum" /\ aIdx < Len(aColors)
    /\ aIdx' = aIdx + 1
    /\ aTotal' = RGB(aTotal.r + aColors[aIdx + 1].r,
                     aTotal.g + aColors[aIdx + 1].g,
                     aTotal.b + aColors[aIdx + 1].b)
    /\ UNCHANGED << aColors, aPc, aAverage, aClusters, aResult >>
    /\ UNCHANGED << uvars, jvars, pvars, nvars, evars, fvars >>

\* const average = { r: Math.round(totalR / colors.length), ... }
SumDone ==
    /\ aPc = "sum" /\ aIdx = Len(aColors)
    /\ aAverage' = AverageOf(aTotal, Len(aColors))
    /\ aPc' = "cluster"
    /\ aIdx' = 0
    /\ UNCHANGED << aColors, aTotal, aClusters, aResult >>
    /\ UNCHANGED << uvars, jvars, pvars, nvars, evars, fvars >>

\* colors.forEach(color => { first fit or new cluster })
ClusterColor ==
    /\ aPc = "cluster" /\ aIdx < Len(aColors)
    /\ aIdx' = aIdx + 1
    /\ aClusters' = ClusterStep(aClusters, aColors[aIdx + 1])
    /\ UNCHANGED << aColors, aPc, aTotal, aAverage, aResult >>
    /\ UNCHANGED << uvars, jvars, pvars, nvars, evars, fvars >>

\* sort, pick clusters[0] and clusters[length - 1], round, return
AnalyzeReturn ==
    /\ aPc = "cluster" /\ aIdx = Len(aColors)
    /\ LET sorted == SortByCount(aClusters)
       IN  /\ aClusters' = sorted
           /\ aResult' = [ average  |-> aAverage,
                           dominant |-> RoundCenter(sorted[1].center),
                           least    |-> RoundCenter(sorted[Len(sorted)].center) ]
    /\ aPc' = "done"
    /\ UNCHANGED << aColors, aIdx, aTotal, aAverage >>
    /\ UNCHANGED << uvars, jvars, pvars, nvars, evars, fvars >>

(***************************************************************************)
(* processVideoNative                                                      *)
(***************************************************************************)
\* cleanup(): URL.revokeObjectURL(video.src)
Cleanup == urls \ { jobs }

\* processFrame(), run with the closure's currentFrame = cf and colors = cs
ProcessFrameSeekNext(cf, cs) ==
    IF cf >= FRAME_COUNT
    THEN /\ urls' = Cleanup
         /\ nPromise' = Settle(nPromise, Resolved(cs))
         /\ nStage' = "stopped"
         /\ UNCHANGED << seekTime, position, seeksIssued, outstanding >>
    ELSE /\ seekTime' = SeekTimeNext(file.duration, cf)
         /\ position' = ClampPosition(file, seekTime')
         /\ seeksIssued' = seeksIssued + 1
         /\ outstanding' = outstanding + 1
         /\ nStage' = "seeking"
         /\ UNCHANGED << urls, nPromise >>

ProcessFrame(cf, cs) ==
    IF cf >= FRAME_COUNT
    THEN /\ urls' = Cleanup
         /\ nPromise' = Settle(nPromise, Resolved(cs))
         /\ nStage' = "stopped"
         /\ UNCHANGED << seekTime, position, seeksIssued, outstanding >>
    ELSE /\ seekTime' = SeekTime(file.duration, cf)
         /\ position' = ClampPosition(file, seekTime')
         /\ seeksIssued' = seeksIssued + 1
         /\ outstanding' = outstanding + 1
         /\ nStage' = "seeking"
         /\ UNCHANGED << urls, nPromise >>

\* processVideo(videoFile, onProgress) up to its first await: the executor of
\* processVideoNative's promise.  A throwing executor rejects the promise.
StartJob(v) ==
    /\ pc \in { "idle", "done" }
    /\ jobs < MaxJobs
    /\ jobs' = jobs + 1
    /\ file' = v
    /\ pc' = "native"
    /\ outcome' = <<>>
    /\ lastProgress' = NoProgress
    /\ progressCount' = 0
    /\ currentFrame' = 0 /\ nColors' = <<>> /\ seekTime' = 0 /\ position' = 0
    /\ seeksIssued' = 0 /\ outstanding' = 0
    /\ errored' = FALSE /\ lateLeft' = v.late
    /\ IF v.blob
       THEN /\ urls' = urls \cup { jobs + 1 }
            /\ nPromise' = <<>>
            /\ nStage' = "loading"
       ELSE /\ urls' = urls
            /\ nPromise' = << Rejected(MsgTypeError) >>
            /\ nStage' = "stopped"
    /\ fStarted' = FALSE /\ fConfirm' = "none" /\ fWrites' = 0 /\ fExecs' = 0
    /\ fDuration' = 0 /\ fI' = 0 /\ fColors' = <<>>
    /\ UNCHANGED << avars, evars >>

\* video.onloadedmetadata
LoadedMetadata ==
    /\ nStage = "loading"
    /\ ~errored
    /\ IF DurationUnknown(file.duration)
       THEN /\ urls' = Cleanup
            /\ nPromise' = Settle(nPromise, Rejected(MsgDuration))
            /\ nStage' = "stopped"
            /\ UNCHANGED << seekTime, position, seeksIssued, outstanding >>
       ELSE ProcessFrame(0, <<>>)
    /\ currentFrame' = 0
    /\ nColors' = <<>>
    /\ UNCHANGED << errored, lateLeft >>
    /\ UNCHANGED << uvars, avars, jvars, pvars, evars, fvars >>

\* video.onseeked: the decoder answers the outstanding seek
SeekedNoTimer ==
    /\ outstanding > 0
    /\ ~errored \/ lateLeft > 0
    /\ outstanding' = outstanding - 1
    /\ lateLeft' = IF errored THEN lateLeft - 1 ELSE lateLeft
    /\ nColors' = Capture(file, nColors, currentFrame, position)
    /\ currentFrame' = currentFrame + 1
    /\ Report(NativePercent(currentFrame + 1))
    /\ nStage' = "stopped"
    /\ UNCHANGED << nPromise, seekTime, position, seeksIssued, errored, urls >>
    /\ UNCHANGED << uvars, avars, jvars, evars, fvars >>

Seeked ==
    /\ outstanding > 0
    /\ ~errored \/ lateLeft > 0
    /\ outstanding' = outstanding - 1
    /\ lateLeft' = IF errored THEN lateLeft - 1 ELSE lateLeft
    /\ nColors' = Capture(file, nColors, currentFrame, position)
    /\ currentFrame' = currentFrame + 1
    /\ Report(NativePercent(currentFrame + 1))
    /\ nStage' = "timer"
    /\ UNCHANGED << nPromise, seekTime, position, seeksIssued, errored, urls >>
    /\ UNCHANGED << uvars, avars, jvars, evars, fvars >>

\* setTimeout(processFrame, 0) fires
Timer ==
    /\ nStage = "timer"
    /\ ProcessFrame(currentFrame, nColors)
    /\ UNCHANGED << currentFrame, nColors, errored, lateLeft >>
    /\ UNCHANGED << uvars, avars, jvars, pvars, evars, fvars >>

\* video.onerror
OnErrorKeepUrl ==
    /\ urls' = urls
    /\ nPromise' = Settle(nPromise, Rejected(MsgFormat))

OnError ==
    /\ urls' = Cleanup
    /\ nPromise' = Settle(nPromise, Rejected(MsgFormat))

\* The decoder fires its error event.
DecoderError ==
    /\ nStage # "none"
    /\ file.blob
    /\ ~errored
    /\ file.errAt = seeksIssued
    /\ errored' = TRUE
    /\ OnError
    /\ UNCHANGED << nStage, currentFrame, nColors, seekTime, position, seeksIssued,
                    outstanding, lateLeft >>
    /\ UNCHANGED << uvars, avars, jvars, pvars, evars, fvars >>

(***************************************************************************)
(* processVideo and processVideoFFmpeg                                     *)
(***************************************************************************)
\* throw / return of the async function: settles the promise of processVideo
Finish(o) ==
    /\ outcome' = Settle(outcome, o)
    /\ pc' = "done"

\* if (videoFile.size > 1 GiB) { if (!confirm(...)) throw ... }, then on to
\* await fetchFile / writeFile
NeedsConfirmOrEqual(size) == size >= LARGE_FILE

NeedsConfirm(size) == size > LARGE_FILE

Gate(answer) ==
    IF NeedsConfirm(file.size)
    THEN /\ fConfirm' = answer
         /\ IF answer = "no"
            THEN Finish(Rejected(MsgCancelled))
            ELSE pc' = "write" /\ outcome' = outcome
    ELSE /\ fConfirm' = "none"
         /\ pc' = "write" /\ outcome' = outcome

\* !ffmpeg
EngineMissing == ffmpeg = "null"

\* !ffmpeg.loaded
NotLoadedAlways == TRUE

NotLoaded == ffmpeg # "loaded"

\* processVideoFFmpeg up to its first await
EnterFFmpeg(answer) ==
    /\ fStarted' = TRUE
    /\ Report(1)
    /\ engines' = IF EngineMissing THEN engines + 1 ELSE engines
    /\ IF NotLoaded
       THEN /\ ffmpeg' = IF EngineMissing THEN "created" ELSE ffmpeg
            /\ pc' = "load"
            /\ UNCHANGED << outcome, fConfirm >>
       ELSE /\ Gate(answer)
            /\ ffmpeg' = ffmpeg

\* processVideo resumes from await processVideoNative(...)
NativeSettled ==
    /\ pc = "native"
    /\ nPromise # <<>>
    /\ LET o == nPromise[1]
       IN  IF o.kind = "resolved"
           THEN /\ Finish(o)
                /\ UNCHANGED << pvars, ffmpeg, engines, fStarted, fConfirm >>
           ELSE IF ShouldFallback(o.msg)
                THEN \E answer \in { "yes", "no" } : EnterFFmpeg(answer)
                ELSE /\ Finish(o)
                     /\ UNCHANGED << pvars, ffmpeg, engines, fStarted, fConfirm >>
    /\ UNCHANGED << jobs, file, vfsInputs, vfsFrames,
                    fWrites, fExecs, fDuration, fI, fColors >>
    /\ UNCHANGED << uvars, avars, nvars >>

\* await ffmpeg.load() returns or throws
LoadReturn ==
    /\ pc = "load"
    /\ \/ /\ ffmpeg' = "loaded"
          /\ \E answer \in { "yes", "no" } : Gate(answer)
       \/ /\ Finish(Rejected(MsgEngine))
          /\ UNCHANGED << ffmpeg, fConfirm >>
    /\ UNCHANGED << jobs, file, engines, vfsInputs, vfsFrames,
                    fStarted, fWrites, fExecs, fDuration, fI, fColors >>
    /\ UNCHANGED << uvars, avars, pvars, nvars >>

\* await ffmpeg.writeFile(inputName, await fetchFile(videoFile)) returns or
\* throws; on return the probe is started: ffmpeg.exec(['-i', inputName])
WriteReturn ==
    /\ pc = "write"
    /\ fWrites' = fWrites + 1
    /\ \/ /\ vfsInputs' = { jobs }
          /\ fExecs' = fExecs + 1
          /\ pc' = "probe"
          /\ outcome' = outcome
       \/ /\ Finish(Rejected(MsgEngine))
          /\ UNCHANGED << vfsInputs, fExecs >>
    /\ UNCHANGED << jobs, file, ffmpeg, engines, vfsFrames, fStarted, fConfirm, fDuration, fI, fColors >>
    /\ UNCHANGED << uvars, avars, pvars, nvars >>

\* the probe returns (its log parsed by logHandler) or throws; on return
\* onProgress(10) and the extraction pass is started
ProbeReturn ==
    /\ pc = "probe"
    /\ \/ /\ fDuration' = IF file.probed = 0 THEN GUESSED_DURATION ELSE file.probed
          /\ Report(10)
          /\ fExecs' = fExecs + 1
          /\ pc' = "extract"
          /\ outcome' = outcome
       \/ /\ Finish(Rejected(MsgEngine))
          /\ UNCHANGED << pvars, fDuration, fExecs >>
    /\ UNCHANGED << jobs, file, evars, fStarted, fConfirm, fWrites, fI, fColors >>
    /\ UNCHANGED << uvars, avars, nvars >>

\* Images out001.png .. written by one extraction pass of job j
Written(v, j) == { << k, j >> : k \in 1..v.frames }

\* the extraction pass returns or throws, having written its images
ExtractReturn ==
    /\ pc = "extract"
    /\ vfsFrames' = { f \in vfsFrames : f[1] > file.frames } \cup Written(file, jobs)
    /\ \/ /\ pc' = "read"
          /\ fI' = 1
          /\ outcome' = outcome
       \/ /\ Finish(Rejected(MsgEngine))
          /\ fI' = fI
    /\ fColors' = <<>>
    /\ UNCHANGED << jobs, file, ffmpeg, engines, vfsInputs, fStarted, fConfirm, fWrites, fExecs, fDuration >>
    /\ UNCHANGED << uvars, avars, pvars, nvars >>

\* Owner of image number n in the filesystem; 0 when there is none.
FrameOwner(n) ==
    IF \E f \in vfsFrames : f[1] = n
    THEN (CHOOSE f \in vfsFrames : f[1] = n)[2]
    ELSE 0

\* one iteration of the read loop: await readFile, createImageBitmap, push,
\* await deleteFile, onProgress; any throw breaks the loop
ReadFrame ==
    /\ pc = "read"
    /\ LET owner == FrameOwner(fI)
       IN  IF owner = 0 \/ (owner = jobs /\ fI = file.corrupt)
           THEN /\ pc' = "deleteInput"
                /\ UNCHANGED << pvars, vfsFrames, fI, fColors >>
           ELSE /\ fColors' = Append(fColors, getAverageColor(ImageFrame(owner, fI)))
                /\ vfsFrames' = vfsFrames \ { << fI, owner >> }
                /\ Report(ReadPercent(fI))
                /\ fI' = fI + 1
                /\ pc' = IF fI + 1 <= READ_CAP THEN "read" ELSE "deleteInput"
    /\ UNCHANGED << jobs, file, outcome, ffmpeg, engines, vfsInputs,
                    fStarted, fConfirm, fWrites, fExecs, fDuration >>
    /\ UNCHANGED << uvars, avars, nvars >>

\* await ffmpeg.deleteFile(inputName) returns or throws; on return
\* onProgress(100) and return colors
DeleteInputReturn ==
    /\ pc = "deleteInput"
    /\ \/ /\ vfsInputs' = {}
          /\ Report(100)
          /\ Finish(Resolved(fColors))
       \/ /\ Finish(Rejected(MsgEngine))
          /\ UNCHANGED << pvars, vfsInputs >>
    /\ UNCHANGED << jobs, file, ffmpeg, engines, vfsFrames, fvars >>
    /\ UNCHANGED << uvars, avars, nvars >>

\* A caller of the exported processVideo other than the App: any argument,
\* its sink keeps what it holds.
Invoke(v) ==
    /\ StartJob(v)
    /\ UNCHANGED << uvars, progress >>

(***************************************************************************)
(* App                                                                     *)
(***************************************************************************)
\* {!file && !isProcessing && <UploadZone onFileSelected={handleFileSelected} />}
UploadZoneShown == appFile = NoVideo /\ ~isProcessing

\* {isProcessing && <ProcessingOverlay progress={progress} />}
OverlayShown == isProcessing

\* {file && !isProcessing && colors.length > 0 && <div className="result-container">}
ResultShown == appFile # NoVideo /\ ~isProcessing /\ Len(appColors) > 0

\* handleFileSelected(selectedFile) up to await processVideo(...); UploadZone
\* passes a File taken from the input element or from the drop.
handleFileSelected(v) ==
    /\ UploadZoneShown
    /\ appPc = "idle"
    /\ v.blob
    /\ appFile' = v
    /\ isProcessing' = TRUE
    /\ progress' = 0
    /\ appColors' = <<>>
    /\ appPc' = "await"
    /\ StartJob(v)

\* catch (err) { console.error(err); alert(...); setFile(null) }
CatchKeepsFile == appFile' = appFile

Catch == appFile' = NoVideo

\* handleFileSelected resumes from await processVideo(...): setColors(result),
\* or the catch block; finally setIsProcessing(false)
handleFileSelectedResume ==
    /\ appPc = "await"
    /\ outcome # <<>>
    /\ IF outcome[1].kind = "resolved"
       THEN /\ appColors' = outcome[1].colors
            /\ appFile' = appFile
       ELSE /\ Catch
            /\ appColors' = appColors
    /\ isProcessing' = FALSE
    /\ appPc' = "idle"
    /\ UNCHANGED << avars, jvars, pvars, nvars, evars, fvars >>

\* handleReset(): a click on the title
handleResetAlways ==
    /\ appFile' = NoVideo
    /\ appColors' = <<>>
    /\ progress' = 0
    /\ UNCHANGED << isProcessing, appPc, lastProgress, progressCount >>
    /\ UNCHANGED << avars, jvars, nvars, evars, fvars >>

handleReset ==
    /\ IF isProcessing
       THEN UNCHANGED << appFile, appColors, progress >>
       ELSE /\ appFile' = NoVideo
            /\ appColors' = <<>>
            /\ progress' = 0
    /\ UNCHANGED << isProcessing, appPc, lastProgress, progressCount >>
    /\ UNCHANGED << avars, jvars, nvars, evars, fvars >>

JobStep ==
    \/ LoadedMetadata
    \/ Seeked
    \/ Timer
    \/ DecoderError
    \/ NativeSettled
    \/ LoadReturn
    \/ WriteReturn
    \/ ProbeReturn
    \/ ExtractReturn
    \/ ReadFrame
    \/ DeleteInputReturn

Next ==
    \/ \E v \in Videos : Invoke(v)
    \/ LoadedMetadata
    \/ Seeked
    \/ Timer
    \/ DecoderError
    \/ NativeSettled
    \/ LoadReturn
    \/ WriteReturn
    \/ ProbeReturn
    \/ ExtractReturn
    \/ ReadFrame
    \/ DeleteInputReturn

Spec == Init /\ [][Next]_vars

\* The decoder answers what it was asked (metadata, a seek) with its event or
\* with error; timers and promise continuations run; every engine command
\* returns or throws.  Nothing obliges a caller to start an invocation.
Fairness ==
    /\ WF_vars(LoadedMetadata \/ Seeked \/ DecoderError)
    /\ WF_vars(Timer)
    /\ WF_vars(NativeSettled)
    /\ WF_vars(LoadReturn)
    /\ WF_vars(WriteReturn)
    /\ WF_vars(ProbeReturn)
    /\ WF_vars(ExtractReturn)
    /\ WF_vars(ReadFrame)
    /\ WF_vars(DeleteInputReturn)

SpecFair == Spec /\ Fairness

NextApp ==
    \/ \E v \in Videos : handleFileSelected(v)
    \/ handleFileSelectedResume
    \/ handleReset
    \/ JobStep

SpecApp == Init /\ [][NextApp]_vars

NextAnalyze == SumStep \/ SumDone \/ ClusterColor \/ AnalyzeReturn

SpecAnalyze == InitAnalyze /\ [][NextAnalyze]_vars

(***************************************************************************)
(* Properties                                                              *)
(***************************************************************************)
NativeResolved == nPromise # <<>> /\ nPromise[1].kind = "resolved"

NativeRejected == nPromise # <<>> /\ nPromise[1].kind = "rejected"

JobResolved == outcome # <<>> /\ outcome[1].kind = "resolved"

JobRejected == outcome # <<>> /\ outcome[1].kind = "rejected"

\* C1: within one run of processVideo every value passed to onProgress is at
\* least the value passed before it, and once the run has resolved the last
\* value passed is 100.
C1_ProgressMonotone ==
    /\ [][ (progressCount' = progressCount + 1 /\ progressCount > 0)
              => lastProgress' >= lastProgress ]_vars
    /\ [](JobResolved => lastProgress = 100)

\* C2: a resolved native job returns exactly FRAME_COUNT entries; the entry
\* of every sample whose pixel read failed is black, and the entries of the
\* other samples, also those after a failed one, are sampled colours.
C2_NativeLength ==
    NativeResolved =>
        /\ Len(nPromise[1].colors) = FRAME_COUNT
        /\ \A k \in 1..FRAME_COUNT :
              (nPromise[1].colors[k] = BLACK) <=> BadFrame(file, k - 1)

C2_Witness ==
    /\ NativeResolved
    /\ file.bad = "some"
    /\ nPromise[1].colors[1] = BLACK
    /\ nPromise[1].colors[2] # BLACK

FallbackErrors == { MsgFormat, MsgDuration }

\* C3: the native path is attempted first; the fallback is started only after
\* the native promise rejected with the unsupported-format or the
\* duration-unknown error; a native rejection with any other error is the
\* outcome of processVideo and the fallback is never started.
C3_FallbackPolicy ==
    /\ jobs > 0 => nStage # "none"
    /\ fStarted => NativeRejected /\ nPromise[1].msg \in FallbackErrors
    /\ (NativeRejected /\ nPromise[1].msg \notin FallbackErrors) =>
            /\ ~fStarted
            /\ pc \in { "native", "done" }
            /\ pc = "done" => outcome = nPromise

C3_Witness ==
    /\ pc = "done"
    /\ NativeRejected
    /\ nPromise[1].msg = MsgTypeError
    /\ outcome = nPromise
    /\ ~fStarted

\* C4: when the decoder reports an infinite, missing or zero duration the
\* native scheduler issues no seek, appends no sample and reports no
\* progress, and it rejects with the duration-unknown error.
C4_DurationUnknown ==
    (jobs > 0 /\ file.blob
        /\ (file.duration.kind \in { "NaN", "Infinity" } \/ file.duration.units = 0)) =>
        /\ seeksIssued = 0
        /\ outstanding = 0
        /\ currentFrame = 0
        /\ nColors = <<>>
        /\ pc = "native" => progressCount = 0
        /\ nStage \in { "loading", "stopped" }
        /\ nStage = "stopped" => nPromise = << Rejected(MsgDuration) >>

C4_Witness ==
    /\ file.duration = Infinity
    /\ nStage = "stopped"
    /\ nPromise = << Rejected(MsgDuration) >>
    /\ seeksIssued = 0

\* min(i * duration / FRAME_COUNT, duration - 0.1), in ticks
TargetTimestamp(d, i) ==
    Min((d.units * UnitTicks * i) \div FRAME_COUNT, d.units * UnitTicks - Margin)

\* The colour the k-th entry (1-based) has to hold.
ExpectedSample(v, k) ==
    IF BadFrame(v, k - 1) THEN BLACK
    ELSE getAverageColor(VideoFrame(ClampPosition(v, TargetTimestamp(v.duration, k - 1))))

\* C5: native sampling is sequential and in order: at most one seek is
\* outstanding, the number of seeks issued is the number of samples appended
\* plus the outstanding seek (so seek i+1 follows sample i), the outstanding
\* seek goes to the target timestamp of the next index, every entry is, when
\* appended, the sample of its target timestamp, and so is the k-th entry of
\* the sequence a resolved job returns.
C5_Sequential ==
    /\ outstanding <= 1
    /\ Len(nColors) = currentFrame
    /\ seeksIssued = currentFrame + outstanding
    /\ outstanding = 1 =>
          position = ClampPosition(file, TargetTimestamp(file.duration, currentFrame))
    /\ nColors # <<>> => nColors[Len(nColors)] = ExpectedSample(file, Len(nColors))
    /\ NativeResolved =>
          \A k \in 1..Len(nPromise[1].colors) :
              nPromise[1].colors[k] = ExpectedSample(file, k)

C5_Witness ==
    /\ NativeResolved
    /\ file.duration = Finite(2400)
    /\ file.bad = "none"
    /\ Len(nColors) = FRAME_COUNT
    /\ nColors[2] # nColors[3]

\* C6: a settled native job has released its object URL, and no URL of an
\* earlier job is still held.
C6_HandleReleased ==
    /\ urls \subseteq { jobs }
    /\ nPromise # <<>> => jobs \notin urls

C6_Witness ==
    /\ jobs = 2
    /\ errored
    /\ currentFrame > 0
    /\ NativeRejected
    /\ urls = {}

\* C7: in the fallback an input larger than 1 GiB is written or decoded only
\* after the user confirmed; after a decline the job is rejected with the
\* user-cancelled error and nothing was written or executed; an input of at
\* most 1 GiB is never prompted.
C7_LargeFileGate ==
    /\ (file.size > LARGE_FILE /\ (fWrites > 0 \/ fExecs > 0
            \/ pc \in { "write", "probe", "extract", "read", "deleteInput" }))
          => fConfirm = "yes"
    /\ fConfirm = "no" =>
          /\ fWrites = 0 /\ fExecs = 0
          /\ pc = "done"
          /\ outcome = << Rejected(MsgCancelled) >>
    /\ file.size <= LARGE_FILE => fConfirm = "none"

C7_Witness ==
    /\ fConfirm = "no"
    /\ file.size > LARGE_FILE
    /\ pc = "done"
    /\ vfsInputs = {}

\* C8: the promise of processVideo, and the promise of the native path it
\* awaits, is settled at most once, with a resolution or a rejection,
\* whatever the order of the decoder's events.
C8_SettledOnce ==
    /\ Len(outcome) <= 1
    /\ Len(nPromise) <= 1
    /\ \A i \in 1..Len(outcome) : outcome[i].kind \in { "resolved", "rejected" }
    /\ pc = "done" => Len(outcome) = 1

C8_Witness ==
    /\ errored
    /\ NativeResolved
    /\ JobResolved
    /\ Len(outcome) = 1

IsMaxCount(cs, k) == \A j \in 1..Len(cs) : cs[k].count >= cs[j].count

IsMinCount(cs, k) == \A j \in 1..Len(cs) : cs[k].count <= cs[j].count

\* C9: dominant is the rounded centre of a cluster no other cluster has more
\* members than, least the rounded centre of a cluster no other cluster has
\* fewer members than; 200 RED with 40 BLUE give RED and BLUE.
C9_DominantLeast ==
    aPc = "done" =>
        /\ \E k \in 1..Len(aClusters) :
              /\ IsMaxCount(aClusters, k)
              /\ aResult.dominant = RoundCenter(aClusters[k].center)
        /\ \E k \in 1..Len(aClusters) :
              /\ IsMinCount(aClusters, k)
              /\ aResult.least = RoundCenter(aClusters[k].center)
        /\ aColors = RedBlue240 => aResult.dominant = RED /\ aResult.least = BLUE

C9_Witness ==
    /\ aPc = "done"
    /\ aColors = RedBlue240
    /\ aResult.dominant = RED
    /\ aResult.least = BLUE

Channel(c, ch) == IF ch = "r" THEN c.r ELSE IF ch = "g" THEN c.g ELSE c.b

\* Sum of one channel over the entries lo..hi, by halving the range.
RECURSIVE RangeTotal(_, _, _, _)
RangeTotal(colors, lo, hi, ch) ==
    IF lo > hi THEN 0
    ELSE IF lo = hi THEN Channel(colors[lo], ch)
    ELSE LET mid == (lo + hi) \div 2
         IN  RangeTotal(colors, mid + 1, hi, ch) + RangeTotal(colors, lo, mid, ch)

ChannelTotal(colors, n, ch) == RangeTotal(colors, 1, n, ch)

\* a is the integer nearest to total / n, a half rounded upwards.
IsRoundedMean(a, total, n) == 2 * total - n < 2 * n * a /\ 2 * n * a <= 2 * total + n

\* C10: average is, channel by channel, the mean of all entries rounded to
\* the nearest integer, whatever the order of the entries and the clusters.
C10_Average ==
    aPc = "done" =>
        /\ IsRoundedMean(aResult.average.r, ChannelTotal(aColors, Len(aColors), "r"), Len(aColors))
        /\ IsRoundedMean(aResult.average.g, ChannelTotal(aColors, Len(aColors), "g"), Len(aColors))
        /\ IsRoundedMean(aResult.average.b, ChannelTotal(aColors, Len(aColors), "b"), Len(aColors))

C10_Witness ==
    /\ aPc = "done"
    /\ aColors = << BLACK, RGB(1, 0, 0), RED >>
    /\ Len(aClusters) = 2
    /\ aResult.average = RGB(85, 0, 0)

\* Squared distance of two colours with integer channels.
PairDistanceSq(a, b) ==
    (a.r - b.r) * (a.r - b.r) + (a.g - b.g) * (a.g - b.g) + (a.b - b.b) * (a.b - b.b)

\* Every two entries are at most THRESHOLD apart.
PairwiseWithin(colors) ==
    \A i, j \in 1..Len(colors) :
        PairDistanceSq(colors[i], colors[j]) <= THRESHOLD * THRESHOLD

\* Every two entries are less than THRESHOLD apart.
PairwiseBelow(colors) ==
    \A i, j \in 1..Len(colors) :
        PairDistanceSq(colors[i], colors[j]) < THRESHOLD * THRESHOLD

Near(x, y) == x - y <= 1 /\ y - x <= 1

\* Two colours are equal within rounding: no channel differs by more than 1.
NearColor(a, b) == Near(a.r, b.r) /\ Near(a.g, b.g) /\ Near(a.b, b.b)

\* One cluster was formed and dominant, least and average agree.
SingleClusterResult ==
    /\ Len(aClusters) = 1
    /\ aClusters[1].count = Len(aColors)
    /\ aResult.dominant = aResult.least
    /\ NearColor(aResult.dominant, aResult.average)

\* C11 as stated: when every two colours are within 30 units of each other
\* (30 included) a single cluster is formed and dominant, least and average
\* agree within rounding.
C11_SingleClusterWithin ==
    (aPc = "done" /\ PairwiseWithin(aColors)) => SingleClusterResult

\* C11 amended: when every two colours are less than 30 units apart a single
\* cluster is formed and dominant, least and average agree within rounding;
\* 240 entries {10,20,30} give {10,20,30} three times.
C11_SingleClusterBelow ==
    /\ (aPc = "done" /\ PairwiseBelow(aColors)) => SingleClusterResult
    /\ (aPc = "done" /\ aColors = Same240) =>
          /\ aResult.average = RGB(10, 20, 30)
          /\ aResult.dominant = RGB(10, 20, 30)
          /\ aResult.least = RGB(10, 20, 30)

C11_Witness ==
    /\ aPc = "done"
    /\ aColors = << BLACK, RGB(20, 0, 0), RGB(1, 0, 0) >>
    /\ Len(aClusters) = 1
    /\ aResult.dominant = RGB(7, 0, 0)
    /\ aResult.average = RGB(7, 0, 0)

\* C12: on the native path the value reported after sample i (the closure's
\* currentFrame is then i + 1) is round(100 * (i + 1) / N), and 100 is
\* reported for the final sample only, never for an earlier one.
C12_HundredOnlyAtEnd ==
    (pc = "native" /\ nStage = "timer") =>
        /\ 2 * FRAME_COUNT * lastProgress <= 200 * currentFrame + FRAME_COUNT
        /\ 200 * currentFrame + FRAME_COUNT < 2 * FRAME_COUNT * (lastProgress + 1)
        /\ lastProgress = 100 => currentFrame = FRAME_COUNT

\* C13: the seek issued for sample index i goes to min(i * duration / N,
\* duration - 0.1); within one invocation each seek target is at least the
\* previous one; for a duration of 120 s the targets are 0, 0.5, ..., 119.5 s
\* (2400 ticks apart) and none exceeds 119.9 s.
C13_SeekTargets ==
    /\ [](outstanding > 0 =>
            /\ seekTime = TargetTimestamp(file.duration, currentFrame)
            /\ currentFrame \in 0..(FRAME_COUNT - 1)
            /\ file.duration = Finite(2400) =>
                  /\ seekTime = currentFrame * (UnitTicks * 10)
                  /\ seekTime <= 2400 * UnitTicks - Margin)
    /\ [][(seeksIssued' = seeksIssued + 1 /\ seeksIssued > 0) =>
              seekTime' >= seekTime]_vars

C13_Witness ==
    /\ outstanding > 0
    /\ file.duration = Finite(2400)
    /\ currentFrame = FRAME_COUNT - 1
    /\ seekTime = 239 * 2400

\* C14: once handleFileSelected has handled the rejection of its processVideo
\* job the App is idle: file is null, isProcessing is false, colors is empty
\* and the upload zone is shown; the result view only ever shows the sequence
\* a job resolved with.
C14_IdleAfterReject ==
    /\ (appPc = "idle" /\ JobRejected) =>
          /\ appFile = NoVideo
          /\ ~isProcessing
          /\ appColors = <<>>
          /\ UploadZoneShown
          /\ ~ResultShown
    /\ ResultShown => (JobResolved /\ appColors = outcome[1].colors)

C14_Witness ==
    /\ appPc = "idle"
    /\ JobRejected
    /\ outcome[1].msg = MsgEngine
    /\ fI > 1
    /\ UploadZoneShown

\* C15: when one extracted image of a fallback job cannot be read back or
\* decoded, the job still resolves with an entry for every extracted image (up
\* to the read limit) and the entry of the failed image is black.
C15_CorruptFrameBlack ==
    (JobResolved /\ fStarted /\ file.corrupt \in 1..file.frames) =>
        /\ Len(outcome[1].colors) >= Min(file.frames, READ_CAP)
        /\ outcome[1].colors[file.corrupt] = BLACK

\* C16: when an invocation that used the fallback has ended, resolved or
\* rejected, the engine's filesystem holds neither its input file nor an
\* image extracted for it.
C16_FilesystemClean ==
    (pc = "done" /\ fStarted) =>
        /\ jobs \notin vfsInputs
        /\ \A f \in vfsFrames : f[2] # jobs

\* C17: the read loop of the fallback takes the images in increasing number
\* from 1, holds one entry per image read (entry k from image k), has deleted
\* every image below the one it is about to read, and stops only at the first
\* number that is missing or after 250 images; the result has at most 250
\* entries.
C17_ReadLoop ==
    /\ pc = "read" =>
          /\ fI \in 1..READ_CAP
          /\ Len(fColors) = fI - 1
          /\ \A f \in vfsFrames : f[1] >= fI
    /\ pc \in { "read", "deleteInput" } =>
          \A k \in 1..Len(fColors) : fColors[k].r = k % 256
    /\ (JobResolved /\ fStarted) =>
          /\ outcome[1].colors = fColors
          /\ Len(fColors) <= READ_CAP
          /\ Len(fColors) = READ_CAP \/ FrameOwner(Len(fColors) + 1) = 0

\* Sum of the members of a group, channel by channel.
RECURSIVE GroupTotal(_)
GroupTotal(members) ==
    IF members = <<>> THEN BLACK
    ELSE LET rest == GroupTotal(Tail(members))
         IN  RGB(Head(members).r + rest.r, Head(members).g + rest.g,
                 Head(members).b + rest.b)

\* The colour is within THRESHOLD of the mean of the members: at most
\* (inclusive) or less than THRESHOLD away.
NearMean(color, members, inclusive) ==
    LET n  == Len(members)
        s  == GroupTotal(members)
        d2 == (color.r * n - s.r) * (color.r * n - s.r)
            + (color.g * n - s.g) * (color.g * n - s.g)
            + (color.b * n - s.b) * (color.b * n - s.b)
    IN  IF inclusive THEN d2 <= THRESHOLD * THRESHOLD * n * n
        ELSE d2 < THRESHOLD * THRESHOLD * n * n

\* First fit on member lists: the colour joins the first group whose mean it
\* is near, otherwise it founds a group.
GroupAdd(groups, color, inclusive) ==
    LET fit == { i \in 1..Len(groups) : NearMean(color, groups[i], inclusive) }
    IN  IF fit = {} THEN Append(groups, << color >>)
        ELSE LET k == CHOOSE i \in fit : \A j \in fit : i <= j
             IN  [ groups EXCEPT ![k] = Append(@, color) ]

\* The groups of the first k colours.
RECURSIVE Groups(_, _, _)
Groups(colors, k, inclusive) ==
    IF k = 0 THEN <<>>
    ELSE GroupAdd(Groups(colors, k - 1, inclusive), colors[k], inclusive)

\* Cluster i has the members of group i: their number as count and their
\* mean as centre.
MatchesGroups(clusters, groups) ==
    /\ Len(clusters) = Len(groups)
    /\ \A i \in 1..Len(clusters) :
          LET s == GroupTotal(groups[i])
              n == Len(groups[i])
              c == clusters[i].center
          IN  /\ clusters[i].count = n
              /\ c.r * n = s.r * c.den
              /\ c.g * n = s.g * c.den
              /\ c.b * n = s.b * c.den

RECURSIVE CountTotal(_)
CountTotal(clusters) ==
    IF clusters = <<>> THEN 0
    ELSE Head(clusters).count + CountTotal(Tail(clusters))

\* Every cluster has a member and the counts add up to the colours processed.
CountsAddUp ==
    aPc \in { "cluster", "done" } =>
        /\ \A i \in 1..Len(aClusters) : aClusters[i].count >= 1
        /\ CountTotal(aClusters) = aIdx

\* A step of the clustering loop keeps every cluster in place and lets no
\* count shrink; the final sort keeps their number.
ClustersKept ==
    /\ Len(aClusters') >= Len(aClusters)
    /\ aPc' = "cluster" =>
          \A i \in 1..Len(aClusters) : aClusters'[i].count >= aClusters[i].count
    /\ aPc' = "done" => Len(aClusters') = Len(aClusters)

\* C18 as stated: first fit in creation order, a colour joining the first
\* cluster whose centroid is within 30 of it (30 included), the centroid being
\* the mean of the members; clusters are never merged or removed, every count
\* is at least 1 and the counts add up to the colours processed.
C18_FirstFitWithin ==
    /\ [](aPc = "cluster" /\ Len(aColors) <= MaxLen =>
              MatchesGroups(aClusters, Groups(aColors, aIdx, TRUE)))
    /\ []CountsAddUp
    /\ [][ClustersKept]_vars

\* C18 amended: the same with a colour joining the first cluster whose
\* centroid is less than 30 away.
C18_FirstFitBelow ==
    /\ [](aPc = "cluster" /\ Len(aColors) <= MaxLen =>
              MatchesGroups(aClusters, Groups(aColors, aIdx, FALSE)))
    /\ []CountsAddUp
    /\ [][ClustersKept]_vars

C18_Witness ==
    /\ aPc = "cluster"
    /\ aColors = << BLACK, RGB(30, 0, 0), RGB(20, 0, 0) >>
    /\ aIdx = 3
    /\ Len(aClusters) = 2
    /\ aClusters[1] = [ count |-> 2, center |-> Center(10, 0, 0, 1) ]
    /\ aClusters[2] = [ count |-> 1, center |-> Center(30, 0, 0, 1) ]

\* C19: when the decoder answers every request and every engine command
\* returns or throws, each invocation of processVideo that is pending is
\* eventually settled, resolved or rejected.
C19_Terminates ==
    (jobs > 0 /\ outcome = <<>>) ~> (outcome # <<>>)

C19_Witness ==
    /\ jobs = 2
    /\ pc = "done"
    /\ Len(outcome) = 1
    /\ errored
    /\ fStarted
    /\ fI > 1

\* C20: the engine is a lazily initialised singleton: it is constructed and
\* loaded only by an invocation that has entered the fallback after its native
\* path rejected, at most one engine is ever constructed, load is never called
\* on a loaded engine, and an engine once created or loaded stays so.
C20_Singleton ==
    /\ [](/\ engines <= 1
          /\ engines = 0 <=> ffmpeg = "null"
          /\ (ffmpeg = "null" /\ pc \notin { "native", "done" }) => pc = "idle")
    /\ [][/\ (ffmpeg' # ffmpeg \/ engines' # engines \/ (pc' = "load" /\ pc # "load")) =>
               (fStarted' /\ NativeRejected)
          /\ ffmpeg = "loaded" => (ffmpeg' = "loaded" /\ pc' # "load")
          /\ ffmpeg = "created" => ffmpeg' # "null"
          /\ engines' >= engines]_vars

C20_Witness ==
    /\ jobs = 2
    /\ pc = "write"
    /\ fWrites = 0
    /\ ffmpeg = "loaded"
    /\ engines = 1
    /\ lastProgress = 1

\* The current invocation of processVideo has not settled.
JobPending == jobs > 0 /\ outcome = <<>>

\* The current invocation is using the engine.
EngineInUse == pc \in { "load", "write", "probe", "extract", "read", "deleteInput" }

\* C21: the App offers file selection only while no job is unsettled (the
\* upload zone needs file null and isProcessing false, and isProcessing is
\* true for as long as the job is pending), a reset during processing changes
\* nothing, and a job is started only when the one before it has settled and
\* has left the engine.
C21_NoOverlap ==
    /\ [](/\ UploadZoneShown => (appPc = "idle" /\ ~JobPending /\ ~EngineInUse)
          /\ JobPending => (isProcessing /\ appFile = file)
          /\ appPc = "await" <=> isProcessing)
    /\ [][/\ jobs' # jobs =>
               (UploadZoneShown /\ ~JobPending /\ ~EngineInUse /\ jobs' = jobs + 1)
          /\ (isProcessing /\ isProcessing') =>
               (appFile' = appFile /\ appColors' = appColors)]_vars

C21_Witness ==
    /\ jobs = 2
    /\ pc = "read"
    /\ isProcessing
    /\ fI > 1
    /\ ~UploadZoneShown

\* C22: once the native promise of an invocation has rejected, the native
\* loop of that invocation issues no further seek, appends no further sample
\* and reports no further progress.
C22_RejectedIsInert ==
    [][(NativeRejected /\ jobs' = jobs) =>
          /\ seeksIssued' = seeksIssued
          /\ nColors' = nColors
          /\ currentFrame' = currentFrame]_vars

\* The colour computed from image number n when it was extracted by job j.
ImageColor(j, n) == getAverageColor(ImageFrame(j, n))

\* C23: every entry a fallback job appends to its sequence, and every entry of
\* the sequence it resolves with, is the colour of an image the same job
\* extracted.
C23_OwnFramesOnly ==
    /\ (fStarted /\ fColors # <<>>) =>
          fColors[Len(fColors)] = ImageColor(jobs, Len(fColors))
    /\ (fStarted /\ JobResolved) =>
          \A k \in 1..Len(outcome[1].colors) :
              outcome[1].colors[k] = ImageColor(jobs, k)

\* C24: in every state of the App exactly one of the upload zone, the
\* processing overlay and the result view is rendered; in particular a file
\* that is set while nothing is processing comes with a non-empty color list.
C24_ExactlyOneView ==
    /\ \/ UploadZoneShown /\ ~OverlayShown /\ ~ResultShown
       \/ ~UploadZoneShown /\ OverlayShown /\ ~ResultShown
       \/ ~UploadZoneShown /\ ~OverlayShown /\ ResultShown
    /\ (appFile # NoVideo /\ ~isProcessing) => appColors # <<>>

\* C25: every seek the native scheduler issues on a video of finite duration
\* greater than zero goes to a target inside the stream: at least 0 and less
\* than the duration.
C25_TargetInsideStream ==
    (seeksIssued > 0 /\ file.duration.kind = "finite" /\ file.duration.units > 0) =>
        /\ seekTime >= 0
        /\ seekTime < file.duration.units * UnitTicks

====
